---- MODULE Spec2Model ----
(***************************************************************************)
(* Model of mxstr.h / mxutil.h: string references (mxstr_t) and the        *)
(* growable output buffer (mxbuf_t) built on them.                         *)
(*                                                                         *)
(* Memory is a flat address space.  The caller supplied range lives at     *)
(* InitBase, heap blocks at the addresses in HeapAddrs; blocks are Stride  *)
(* apart so that a one-past-the-end pointer never reaches the next block.  *)
(* mem[a] is the byte contents of the block that starts at address a.      *)
(***************************************************************************)
EXTENDS Integers, Sequences, FiniteSets, TLC

\* ------------------------------------------------------------ bounds ----
MaxCap == 4
MaxInit == 1
MaxWrite == 2

\* longest string reference and largest index given to mxstr_substr
MaxView == 10
MaxIdx == 25

\* largest argument given to mxutil_size_p2 on its own
MaxP2Arg == 100

\* ----------------------------------------------------- address space ----
NULL == 0
Stride == MaxCap + 1
InitBase == Stride
HeapAddrs == {2 * Stride, 3 * Stride}
Blocks == {InitBase} \cup HeapAddrs
AddrSpace == 4 * Stride
BlockOf(ptr) == (ptr \div Stride) * Stride

\* Bytes the caller writes, and the values indeterminate memory may turn out
\* to hold where the program can observe it.
SrcBytes == {65, 66}
GarbageBytes == {0, 65}
SrcViews == {<<>>, <<65>>, <<66, 65>>, <<65, 66, 66>>}
\* 0x41, 0xE9, 0x20AC, 0x1F600, 0x110000, 0x7FFFFFFF
CodePoints == {65, 233, 8364, 128512, 1114112, 2147483647}
\* the codepoints written between the other writes
MixCodePoints == {233, 1114112}

\* ------------------------------------------------------------ mxutil ----
min(arg1_, arg2_) == IF arg1_ < arg2_ THEN arg1_ ELSE arg2_

max(arg1_, arg2_) == IF arg1_ > arg2_ THEN arg1_ ELSE arg2_

WordBits == 32

RECURSIVE BitLen(_)
BitLen(value) == IF value = 0 THEN 0 ELSE 1 + BitLen(value \div 2)

\* __builtin_clz on a non-zero 32 bit value
builtin_clz(value) == WordBits - BitLen(value)

IsPow2(x) == \E k \in 0..BitLen(x) : x = 2 ^ k

\* __builtin_clz(0) is undefined: the shift count, and with it the result
\* of mxutil_size_p2(0), is whatever the build produces.  The outcomes are
\* the powers of two (1 << k), here those that fit the model's capacity.
P2ZeroOutcomes == {x \in 1..MaxCap : IsPow2(x)}

\* ub is the outcome of the undefined case
mxutil_size_p2(value, ub) ==
    IF value = 0 THEN ub ELSE 2 ^ (WordBits - builtin_clz(value))

\* libc realloc(data, size) on heap h = [mem, live].
\*   o.zero : what realloc(p, 0) does: "null" frees p and returns NULL,
\*            "block" returns a zero-sized block
\*   o.move : whether the block is moved
\*   o.fill : the indeterminate contents of the fresh bytes, as far as a
\*            caller can come to read them before writing them (the
\*            bytes beyond are never read and are kept as 0)
FreeAddr(live) ==
    CHOOSE a \in HeapAddrs \ live : \A b \in HeapAddrs \ live : a <= b

realloc(h, data, size, o) ==
    IF size = 0 /\ o.zero = "null"
    THEN [mem  |-> [a \in Blocks |-> IF a = data THEN <<>> ELSE h.mem[a]],
          live |-> h.live \ {data},
          ptr  |-> NULL]
    ELSE LET old == IF data = NULL THEN <<>> ELSE h.mem[data]
             p   == IF data # NULL /\ ~o.move THEN data
                    ELSE FreeAddr(h.live)
             new == [i \in 1..size |->
                        IF i <= Len(old) THEN old[i]
                        ELSE IF i <= Len(o.fill) THEN o.fill[i] ELSE 0]
         IN  [mem  |-> [a \in Blocks |->
                          IF a = p THEN new
                          ELSE IF a = data THEN <<>> ELSE h.mem[a]],
              live |-> (h.live \ {data}) \cup {p},
              ptr  |-> p]

\* m is the machine: the mxbuf_t fields, the memory, the live heap blocks,
\* the allocator calls made by the running operation and the abort status.
mxutil_realloc(m, data, size, o) ==
    LET r  == realloc([mem |-> m.mem, live |-> m.live], data, size, o)
        m1 == [m EXCEPT !.mem = r.mem, !.live = r.live,
                        !.calls = Append(@, [fn |-> "realloc",
                                             ptr |-> data, size |-> size])]
    IN  [m   |-> IF r.ptr = NULL /\ ~o.ndebug
                 THEN [m1 EXCEPT !.aborted = "realloc"] ELSE m1,
         ptr |-> r.ptr]

\* ------------------------------------------------------------- mxstr ----
mxstr(str, len) == [ptr |-> str, len |-> len]

mxstr_empty(str) == str.len = 0

\* ok is the assertion idx <= str.len
mxstr_substr_offset(str, substr) ==
    LET idx == (substr.ptr - str.ptr) % AddrSpace
    IN  [idx |-> idx, ok |-> idx <= str.len]

\* the prefix runs up to the end of the substring
mxstr_prefix_through(str, substr) ==
    LET off == mxstr_substr_offset(str, substr)
    IN  [s |-> mxstr(str.ptr, off.idx + substr.len), ok |-> off.ok]

mxstr_prefix(str, substr) ==
    LET off == mxstr_substr_offset(str, substr)
    IN  [s |-> mxstr(str.ptr, off.idx), ok |-> off.ok]

\* leaves a start beyond the end of the string where it is
mxstr_substr_noclamp(str, start, end) ==
    LET ok1    == ~(end < start)
        end1   == IF end < start THEN start ELSE end
        ok2    == ok1 /\ ~(start > str.len)
        ok3    == ok2 /\ ~(end1 > str.len)
        end3   == IF end1 > str.len THEN str.len ELSE end1
    IN  [ok |-> ok3, substr |-> mxstr(str.ptr + start, end3 - start)]

mxstr_substr(str, start, end) ==
    LET ok1    == ~(end < start)
        end1   == IF end < start THEN start ELSE end
        ok2    == ok1 /\ ~(start > str.len)
        start2 == IF start > str.len THEN str.len ELSE start
        ok3    == ok2 /\ ~(end1 > str.len)
        end3   == IF end1 > str.len THEN str.len ELSE end1
    IN  [ok |-> ok3, substr |-> mxstr(str.ptr + start2, end3 - start2)]

\* A length that mxstr_cmp takes is a size_t of 64 bits, written as four
\* digits of 16 bits, the least significant first; its int has 32 bits.
Digit == 2 ^ 16

size_of(n) == <<n % Digit, n \div Digit, 0, 0>>

\* a < b on size_t
size_lt(a, b) ==
    \E i \in 1..4 : a[i] < b[i] /\ \A j \in (i + 1)..4 : a[j] = b[j]

min_size(arg1_, arg2_) == IF size_lt(arg1_, arg2_) THEN arg1_ ELSE arg2_

RECURSIVE Borrow(_, _, _)
Borrow(a, b, i) ==
    IF i = 0 THEN 0
    ELSE IF a[i] - b[i] - Borrow(a, b, i - 1) < 0 THEN 1 ELSE 0

\* a - b on size_t, which wraps around
size_sub(a, b) ==
    [i \in 1..4 |-> (a[i] - b[i] - Borrow(a, b, i - 1)) % Digit]

\* the conversion of a size_t to int keeps the low 32 bits, in two's
\* complement
to_int(d) ==
    IF d[2] >= Digit \div 2 THEN (d[2] - Digit) * Digit + d[1]
    ELSE d[2] * Digit + d[1]

\* What mxstr_cmp reads of a string is t = [head, len]: len is its length
\* and head its first bytes, the bytes after them being 0.
ByteAt(t, i) == IF i <= Len(t.head) THEN t.head[i] ELSE 0

\* memcmp of the first n bytes; the sign of the result is that of the
\* first pair of bytes that differ
memcmp(t1, t2, n) ==
    LET last == max(Len(t1.head), Len(t2.head)) + 1
        diff == {i \in 1..last : /\ ~size_lt(n, size_of(i))
                                  /\ ByteAt(t1, i) # ByteAt(t2, i)}
    IN  IF diff = {} THEN 0
        ELSE LET i == CHOOSE k \in diff : \A j \in diff : k <= j
             IN  ByteAt(t1, i) - ByteAt(t2, i)

mxstr_cmp(str1, str2) ==
    LET cmp == memcmp(str1, str2, min_size(str1.len, str2.len))
    IN  IF cmp = 0 THEN to_int(size_sub(str1.len, str2.len)) ELSE cmp

\* advances the length but not the pointer
mxstr_consume_noadvance(str, len) ==
    LET size == min(str.len, len)
    IN  [str |-> mxstr(str.ptr, str.len - size), size |-> size]

mxstr_consume(str, len) ==
    LET size == min(str.len, len)
    IN  [str |-> mxstr(str.ptr + size, str.len - size), size |-> size]

\* what mxstr_cmp reads of the bytes of a string of less than 2^31 bytes
Text(bytes) == [head |-> bytes, len |-> size_of(Len(bytes))]

\* memcpy / memset of the bytes data to address ptr
Store(mem, ptr, data) ==
    IF Len(data) = 0 THEN mem
    ELSE LET b   == BlockOf(ptr)
             off == ptr - b
         IN  [mem EXCEPT ![b] = [i \in 1..Len(@) |->
                 IF off < i /\ i <= off + Len(data)
                 THEN data[i - off] ELSE @[i]]]

\* the bytes a string references
Bytes(mem, str) ==
    IF str.len = 0 THEN <<>>
    ELSE LET b   == BlockOf(str.ptr)
             off == str.ptr - b
         IN  SubSeq(mem[b], off + 1, off + str.len)

\* c is the variable the character is stored in
mxstr_getchar(mem, str, c) ==
    LET ok == str.len > 0
    IN  [ok |-> ok, c |-> IF ok THEN Bytes(mem, mxstr(str.ptr, 1))[1] ELSE c]

\* looks at the first character and leaves it in the string
mxstr_consume_char_peek(mem, str, c, match) ==
    LET g == mxstr_getchar(mem, str, c)
    IN  [str |-> str, c |-> g.c, ok |-> g.ok /\ g.c \in match]

\* match is the set of the characters for which the expression match_ holds
mxstr_consume_char(mem, str, c, match) ==
    LET g == mxstr_getchar(mem, str, c)
        n == mxstr_consume(str, 1)
    IN  IF g.ok /\ g.c \in match
        THEN [str |-> n.str, c |-> g.c, ok |-> n.size = 1]
        ELSE [str |-> str, c |-> g.c, ok |-> FALSE]

\* consumes whatever the string starts with
mxstr_consume_str_nocmp(mem, str, prefix) ==
    LET sub == mxstr_substr(str, 0, Len(prefix))
        c   == mxstr_consume(str, Len(prefix))
    IN  IF sub.ok
        THEN [str |-> c.str, ok |-> c.size = Len(prefix)]
        ELSE [str |-> str, ok |-> FALSE]

\* prefix is the bytes of the string to match
mxstr_consume_str(mem, str, prefix) ==
    LET sub == mxstr_substr(str, 0, Len(prefix))
        c   == mxstr_consume(str, Len(prefix))
    IN  IF sub.ok /\ mxstr_cmp(Text(Bytes(mem, sub.substr)), Text(prefix)) = 0
        THEN [str |-> c.str, ok |-> c.size = Len(prefix)]
        ELSE [str |-> str, ok |-> FALSE]

\* copies the whole of src
mxstr_write_unbounded(mem, dest, src) ==
    LET size == Len(src)
    IN  [mem  |-> Store(mem, dest.ptr, SubSeq(src, 1, size)),
         dest |-> mxstr(dest.ptr + size, dest.len - size),
         size |-> size]

mxstr_write(mem, dest, src) ==
    LET size == min(dest.len, Len(src))
    IN  [mem  |-> Store(mem, dest.ptr, SubSeq(src, 1, size)),
         dest |-> mxstr(dest.ptr + size, dest.len - size),
         size |-> size]

mxstr_write_chars(mem, dest, c, n) ==
    LET size == min(dest.len, n)
    IN  [mem  |-> Store(mem, dest.ptr, [i \in 1..size |-> c]),
         dest |-> mxstr(dest.ptr + size, dest.len - size),
         size |-> size]

mxstr_putc(mem, str, c) ==
    LET ok == ~mxstr_empty(str)
    IN  [mem |-> IF ok THEN Store(mem, str.ptr, <<c>>) ELSE mem,
         str |-> IF ok THEN mxstr_consume(str, 1).str ELSE str,
         ok  |-> ok]

\* ------------------------------------------------------------- mxbuf ----
mxbuf_create(ptr, len) ==
    LET str == mxstr(ptr, len)
    IN  [buf |-> str, available |-> str, init |-> str]

\* rewinds to the caller supplied range instead of the current buffer
mxbuf_reset_to_init(m) == [m EXCEPT !.available = m.init]

mxbuf_reset(m) == [m EXCEPT !.available = m.buf]

\* releases the buffer whoever owns it
mxbuf_free_unguarded(m) ==
    LET m1 == [m EXCEPT
                 !.calls = Append(@, [fn |-> "free", ptr |-> m.buf.ptr,
                                      size |-> 0]),
                 !.live = @ \ {m.buf.ptr},
                 !.mem = [a \in Blocks |->
                            IF a = m.buf.ptr THEN <<>> ELSE m.mem[a]]]
    IN  [m1 EXCEPT !.buf = m.init, !.available = m.init]

\* releases the block but keeps pointing at it
mxbuf_free_keep_buf(m) ==
    LET m1 == IF m.buf.ptr # m.init.ptr
              THEN [m EXCEPT
                      !.calls = Append(@, [fn |-> "free", ptr |-> m.buf.ptr,
                                           size |-> 0]),
                      !.live = @ \ {m.buf.ptr},
                      !.mem = [a \in Blocks |->
                                 IF a = m.buf.ptr THEN <<>> ELSE m.mem[a]]]
              ELSE m
    IN  [m1 EXCEPT !.available = m.init]


mxbuf_free(m) ==
    LET m1 == IF m.buf.ptr # m.init.ptr
              THEN [m EXCEPT
                      !.calls = Append(@, [fn |-> "free", ptr |-> m.buf.ptr,
                                           size |-> 0]),
                      !.live = @ \ {m.buf.ptr},
                      !.mem = [a \in Blocks |->
                                 IF a = m.buf.ptr THEN <<>> ELSE m.mem[a]]]
              ELSE m
    IN  [m1 EXCEPT !.buf = m.init, !.available = m.init]

mxbuf_trim(m, o) ==
    IF m.buf.ptr # m.init.ptr
    THEN LET off == mxstr_substr_offset(m.buf, m.available)
         IN  IF ~off.ok THEN [m EXCEPT !.aborted = "substr_offset"]
             ELSE LET len == off.idx
                      r   == mxutil_realloc(m, m.buf.ptr, len, o)
                      str == mxstr(r.ptr, len)
                  IN  IF r.m.aborted # "none" THEN r.m
                      ELSE [r.m EXCEPT
                              !.buf = str,
                              !.available = mxstr_substr(str, len, len).substr]
    ELSE m

\* makes room when the write leaves nothing over
mxbuf_require_eager(m, size, o) ==
    IF m.aborted # "none" THEN m
    ELSE IF m.available.len <= size /\ size > 0
    THEN LET new_size == max(mxutil_size_p2(m.buf.len, o.p2z),
                             mxutil_size_p2(size, o.p2z))
             off      == mxstr_substr_offset(m.buf, m.available)
         IN  IF ~off.ok THEN [m EXCEPT !.aborted = "substr_offset"]
             ELSE LET len == off.idx
                      ptr == IF m.buf.ptr # m.init.ptr THEN m.buf.ptr
                             ELSE NULL
                      r   == mxutil_realloc(m, ptr, new_size, o)
                      str == mxstr(r.ptr, new_size)
                  IN  IF r.m.aborted # "none" THEN r.m
                      ELSE [r.m EXCEPT
                              !.buf = str,
                              !.available =
                                  mxstr_substr(str, len, new_size).substr]
    ELSE m

mxbuf_require(m, size, o) ==
    IF m.aborted # "none" THEN m
    ELSE IF m.available.len < size
    THEN LET new_size == max(mxutil_size_p2(m.buf.len, o.p2z),
                             mxutil_size_p2(size, o.p2z))
             off      == mxstr_substr_offset(m.buf, m.available)
         IN  IF ~off.ok THEN [m EXCEPT !.aborted = "substr_offset"]
             ELSE LET len == off.idx
                      ptr == IF m.buf.ptr # m.init.ptr THEN m.buf.ptr
                             ELSE NULL
                      r   == mxutil_realloc(m, ptr, new_size, o)
                      str == mxstr(r.ptr, new_size)
                  IN  IF r.m.aborted # "none" THEN r.m
                      ELSE [r.m EXCEPT
                              !.buf = str,
                              !.available =
                                  mxstr_substr(str, len, new_size).substr]
    ELSE m

mxbuf_write(m, str, o) ==
    LET m1 == mxbuf_require(m, Len(str), o)
        w  == mxstr_write(m1.mem, m1.available, str)
    IN  IF m1.aborted # "none" THEN [m |-> m1, ret |-> 0]
        ELSE [m   |-> [m1 EXCEPT !.mem = w.mem, !.available = w.dest],
              ret |-> w.size]

\* writes without making room first
mxbuf_putc_norequire(m, c, o) ==
    LET w == mxstr_putc(m.mem, m.available, c % 256)
    IN  [m   |-> [m EXCEPT !.mem = w.mem, !.available = w.str],
         ret |-> w.ok]

mxbuf_putc(m, c, o) ==
    LET m1 == mxbuf_require(m, 1, o)
        w  == mxstr_putc(m1.mem, m1.available, c % 256)
    IN  IF m1.aborted # "none" THEN [m |-> m1, ret |-> FALSE]
        ELSE [m   |-> [m1 EXCEPT !.mem = w.mem, !.available = w.str],
              ret |-> w.ok]

\* takes 0x110000 for a codepoint
utf8_putc_args_inclusive(c) ==
    IF c < 128 THEN <<c>>
    ELSE IF c < 2048
    THEN <<192 + ((c \div 64) % 32), 128 + (c % 64)>>
    ELSE IF c < 65536
    THEN <<224 + ((c \div 4096) % 16), 128 + ((c \div 64) % 64),
           128 + (c % 64)>>
    ELSE IF c <= 1114112
    THEN <<240 + ((c \div 262144) % 8), 128 + ((c \div 4096) % 64),
           128 + ((c \div 64) % 64), 128 + (c % 64)>>
    ELSE <<>>

\* the arguments mxbuf_put_utf8 passes to mxbuf_putc, in order
utf8_putc_args(c) ==
    IF c < 128 THEN <<c>>
    ELSE IF c < 2048
    THEN <<192 + ((c \div 64) % 32), 128 + (c % 64)>>
    ELSE IF c < 65536
    THEN <<224 + ((c \div 4096) % 16), 128 + ((c \div 64) % 64),
           128 + (c % 64)>>
    ELSE IF c < 1114112
    THEN <<240 + ((c \div 262144) % 8), 128 + ((c \div 4096) % 64),
           128 + ((c \div 64) % 64), 128 + (c % 64)>>
    ELSE <<>>

RECURSIVE putc_all(_, _, _, _)
putc_all(m, args, i, os) ==
    IF i > Len(args) \/ m.buf.len > MaxCap THEN m
    ELSE putc_all(mxbuf_putc(m, args[i], os[i]).m, args, i + 1, os)

\* os[i] is the allocator's behaviour during the i-th mxbuf_putc
mxbuf_put_utf8(m, c, os) ==
    [m |-> putc_all(m, utf8_putc_args(c), 1, os), ret |-> c < 1114112]

mxbuf_write_chars(m, c, n, o) ==
    LET m1 == mxbuf_require(m, n, o)
        w  == mxstr_write_chars(m1.mem, m1.available, c, n)
    IN  IF m1.aborted # "none" THEN [m |-> m1, ret |-> 0]
        ELSE [m   |-> [m1 EXCEPT !.mem = w.mem, !.available = w.dest],
              ret |-> w.size]

mxbuf_str(m) == mxstr_prefix(m.buf, m.available).s

\* ------------------------------------------------------------- state ----
VARIABLES buf, available, init, mem, live, calls, aborted, op, ret

vars == <<buf, available, init, mem, live, calls, aborted, op, ret>>

\* the machine an operation starts from
M == [buf |-> buf, available |-> available, init |-> init, mem |-> mem,
      live |-> live, calls |-> <<>>, aborted |-> aborted]

\* the bytes written so far
contents == Bytes(mem, mxbuf_str(M))

\* the allocator behaviours an operation can meet in the current state
Oracles ==
    [move   : IF buf.ptr # init.ptr THEN BOOLEAN ELSE {FALSE},
     fill   : IF buf.ptr = init.ptr
              THEN [1..mxbuf_str(M).len -> GarbageBytes] ELSE {<<>>},
     p2z    : IF buf.len = 0 THEN P2ZeroOutcomes ELSE {1},
     zero   : {"block"},
     ndebug : {FALSE}]

TrimOracles ==
    [move   : BOOLEAN,
     fill   : {<<>>},
     p2z    : {1},
     zero   : {"null", "block"},
     ndebug : BOOLEAN]

Init ==
    \E p \in {NULL, InitBase}, n \in 0..MaxInit :
        /\ p = NULL => n = 0
        /\ LET b == mxbuf_create(p, n)
           IN  /\ buf = b.buf
               /\ available = b.available
               /\ init = b.init
        /\ mem = [a \in Blocks |->
                    IF a = p THEN [i \in 1..n |-> 0] ELSE <<>>]
        /\ live = {}
        /\ calls = <<>>
        /\ aborted = "none"
        /\ op = [name |-> "create", arg |-> <<>>]
        /\ ret = 0

\* the state after an operation that left machine m
Step(name, arg, m, r) ==
    /\ aborted = "none"
    /\ m.buf.len <= MaxCap
    /\ buf' = m.buf
    /\ available' = m.available
    /\ init' = m.init
    /\ mem' = m.mem
    /\ live' = m.live
    /\ calls' = m.calls
    /\ aborted' = m.aborted
    /\ op' = [name |-> name, arg |-> arg]
    /\ ret' = r

Write ==
    \E src \in SrcViews, o \in Oracles :
        LET r == mxbuf_write(M, src, o)
        IN  Step("write", src, r.m, r.ret)

Putc ==
    \E c \in SrcBytes, o \in Oracles :
        LET r == mxbuf_putc(M, c, o)
        IN  Step("putc", <<c>>, r.m, r.ret)

WriteChars ==
    \E c \in SrcBytes, n \in 0..MaxWrite, o \in Oracles :
        LET r == mxbuf_write_chars(M, c, n, o)
        IN  Step("write_chars", <<c, n>>, r.m, r.ret)

PutUtf8Of(c) ==
    \E o \in Oracles, mv \in [2..Len(utf8_putc_args(c)) -> BOOLEAN] :
        LET os == [i \in 1..4 |->
                     IF i = 1 \/ i > Len(utf8_putc_args(c)) THEN o
                     ELSE [o EXCEPT !.move = mv[i]]]
            r  == mxbuf_put_utf8(M, c, os)
        IN  Step("put_utf8", <<c>>, r.m, r.ret)

PutUtf8 == \E c \in MixCodePoints : PutUtf8Of(c)

PutUtf8Any == \E c \in CodePoints : PutUtf8Of(c)

Reset == Step("reset", <<>>, mxbuf_reset(M), 0)

Trim ==
    \E o \in TrimOracles :
        Step("trim", <<>>, mxbuf_trim(M, o), 0)

Free == Step("free", <<>>, mxbuf_free(M), 0)

Next ==
    \/ Write
    \/ Putc
    \/ WriteChars
    \/ PutUtf8
    \/ Reset
    \/ Trim
    \/ Free

Spec == Init /\ [][Next]_vars

\* Only writes, on a buffer created over a zero-length range.
NextGrow ==
    \/ Write
    \/ Putc
    \/ WriteChars

InitGrow == Init /\ init.len = 0

SpecGrow == InitGrow /\ [][NextGrow]_vars

\* Codepoints of every encoded length.
NextUtf8 ==
    \/ PutUtf8Any
    \/ Reset
    \/ Trim
    \/ Free

SpecUtf8 == Init /\ [][NextUtf8]_vars

TypeOK ==
    /\ buf.len \in 0..MaxCap
    /\ available.len \in 0..MaxCap
    /\ live \subseteq HeapAddrs
    /\ aborted \in {"none", "realloc", "substr_offset"}

\* ------------------------------------------- string reference calls ----
\* The functions of string references are applied to arguments drawn by the
\* initial state: buf is the string reference, mem the memory it references,
\* op.arg the remaining arguments, and op.name is "call" until the function
\* has been applied.
NoHeap ==
    /\ live = {}
    /\ calls = <<>>
    /\ aborted = "none"
    /\ ret = 0

\* str is the string reference the function leaves in available
Called(name, str, r) ==
    /\ op.name = "call"
    /\ op' = [op EXCEPT !.name = name]
    /\ available' = str
    /\ ret' = r
    /\ UNCHANGED <<buf, init, mem, live, calls, aborted>>

\* the byte strings of at most n bytes
Strings(n) == UNION {[1..k -> SrcBytes] : k \in 0..n}

\* buf references caller memory that holds bytes
Over(bytes) ==
    /\ buf = mxstr(InitBase, Len(bytes))
    /\ available = buf
    /\ init = buf
    /\ mem = [a \in Blocks |-> IF a = InitBase THEN bytes ELSE <<>>]

InitSubstr ==
    \E n \in 0..MaxView, start \in 0..MaxIdx, end \in 0..MaxIdx :
        /\ buf = mxstr(InitBase, n)
        /\ available = buf
        /\ init = buf
        /\ mem = [a \in Blocks |-> <<>>]
        /\ NoHeap
        /\ op = [name |-> "call", arg |-> <<start, end>>]

Substr == Called("substr", available, mxstr_substr(buf, op.arg[1], op.arg[2]))

SpecSubstr == InitSubstr /\ [][Substr]_vars

\* mxutil_size_p2 on its own; op.arg[1] is the value
InitSizeP2 ==
    \E value \in 0..MaxP2Arg :
        /\ Over(<<>>)
        /\ NoHeap
        /\ op = [name |-> "call", arg |-> <<value>>]

SizeP2 ==
    \E ub \in IF op.arg[1] = 0 THEN P2ZeroOutcomes ELSE {1} :
        Called("size_p2", available, mxutil_size_p2(op.arg[1], ub))

SpecSizeP2 == InitSizeP2 /\ [][SizeP2]_vars

\* the first bytes of the strings compared
CmpHeads == {<<>>, <<65>>, <<66>>, <<65, 66>>}

\* 0, 1, 2, 2^31 - 1, 2^31, 2^32, 2^32 + 1, 2^64 - 1
CmpLens ==
    {size_of(0), size_of(1), size_of(2), <<Digit - 1, Digit \div 2 - 1, 0, 0>>,
     <<0, Digit \div 2, 0, 0>>, <<0, 0, 1, 0>>, <<1, 0, 1, 0>>,
     <<Digit - 1, Digit - 1, Digit - 1, Digit - 1>>}

CmpTexts ==
    {t \in [head : CmpHeads, len : CmpLens] :
        ~size_lt(t.len, size_of(Len(t.head)))}

InitCmp ==
    \E a \in CmpTexts, b \in CmpTexts, c \in CmpTexts :
        /\ buf = mxstr(NULL, 0)
        /\ available = buf
        /\ init = buf
        /\ mem = [x \in Blocks |-> <<>>]
        /\ NoHeap
        /\ op = [name |-> "call", arg |-> <<a, b, c>>]

Cmp ==
    LET a == op.arg[1]
        b == op.arg[2]
        c == op.arg[3]
    IN  Called("cmp", available,
               [aa |-> mxstr_cmp(a, a), ab |-> mxstr_cmp(a, b),
                ba |-> mxstr_cmp(b, a), bc |-> mxstr_cmp(b, c),
                ac |-> mxstr_cmp(a, c)])

SpecCmp == InitCmp /\ [][Cmp]_vars

InitConsumeStr ==
    \E bytes \in Strings(MaxCap), prefix \in Strings(MaxCap) :
        /\ Over(bytes)
        /\ NoHeap
        /\ op = [name |-> "call", arg |-> prefix]

ConsumeStr ==
    LET r == mxstr_consume_str(mem, available, op.arg)
    IN  Called("consume_str", r.str, r.ok)

SpecConsumeStr == InitConsumeStr /\ [][ConsumeStr]_vars

\* mxstr_consume_chars on the string available: op.arg is the set of the
\* characters that match, ret the auxiliary variable c_, and op.name is
\* "call" while the loop of the macro runs.
InitConsumeChars ==
    \E bytes \in Strings(MaxCap), match \in SUBSET SrcBytes :
        /\ Over(bytes)
        /\ NoHeap
        /\ op = [name |-> "call", arg |-> match]

\* one test of the condition of the while loop
ConsumeChar ==
    LET r == mxstr_consume_char(mem, available, ret, op.arg)
    IN  /\ op.name = "call"
        /\ op' = IF r.ok THEN op ELSE [op EXCEPT !.name = "consume_chars"]
        /\ available' = r.str
        /\ ret' = r.c
        /\ UNCHANGED <<buf, init, mem, live, calls, aborted>>

\* the loop runs on until its condition fails
SpecConsumeChars ==
    InitConsumeChars /\ [][ConsumeChar]_vars /\ WF_vars(ConsumeChar)

InitPrefix ==
    \E bytes \in Strings(MaxCap), s \in 0..(MaxCap + 1),
       e \in 0..(MaxCap + 1) :
        /\ Over(bytes)
        /\ NoHeap
        /\ op = [name |-> "call", arg |-> <<s, e>>]

\* the substring is left in available, and ret.prefix is its prefix
Prefix ==
    LET sub == mxstr_substr(buf, op.arg[1], op.arg[2])
        pre == mxstr_prefix(buf, sub.substr)
    IN  Called("prefix", sub.substr,
               [ok |-> sub.ok, prefix |-> pre.s, inside |-> pre.ok])

SpecPrefix == InitPrefix /\ [][Prefix]_vars

\* ------------------------------------------- writing through a cursor ----
\* buf is a region of caller memory, the first bytes of a block of MaxCap
\* bytes, and available the cursor that the write functions advance.
InitStrWrite ==
    \E n \in 0..MaxCap :
        /\ buf = mxstr(InitBase, n)
        /\ available = buf
        /\ init = buf
        /\ mem = [a \in Blocks |->
                    IF a = InitBase THEN [i \in 1..MaxCap |-> 0] ELSE <<>>]
        /\ NoHeap
        /\ op = [name |-> "mxstr", arg |-> <<>>]

Written(name, arg, m, dest, r) ==
    /\ op' = [name |-> name, arg |-> arg]
    /\ mem' = m
    /\ available' = dest
    /\ ret' = r
    /\ UNCHANGED <<buf, init, live, calls, aborted>>

StrWrite ==
    \E src \in SrcViews :
        LET r == mxstr_write(mem, available, src)
        IN  Written("write", src, r.mem, r.dest, r.size)

StrWriteChars ==
    \E c \in SrcBytes, n \in 0..MaxWrite :
        LET r == mxstr_write_chars(mem, available, c, n)
        IN  Written("write_chars", <<c, n>>, r.mem, r.dest, r.size)

StrPutc ==
    \E c \in SrcBytes :
        LET r == mxstr_putc(mem, available, c)
        IN  Written("putc", <<c>>, r.mem, r.str, r.ok)

NextStrWrite ==
    \/ StrWrite
    \/ StrWriteChars
    \/ StrPutc

SpecStrWrite == InitStrWrite /\ [][NextStrWrite]_vars

\* ------------------------------------------------------------ claims ----
WriteOps == {"write", "putc", "write_chars"}

\* the bytes the caller passed to a write operation
ArgBytes(o) ==
    CASE o.name = "write" -> o.arg
      [] o.name = "putc" -> <<o.arg[1]>>
      [] o.name = "write_chars" -> [i \in 1..o.arg[2] |-> o.arg[1]]
      [] OTHER -> <<>>

IsPrefix(s, t) == Len(s) <= Len(t) /\ SubSeq(t, 1, Len(s)) = s

\* the UTF-8 encodings of CodePoints, from the Unicode standard
StdUtf8(c) ==
    CASE c = 65 -> <<65>>
      [] c = 233 -> <<195, 169>>
      [] c = 8364 -> <<226, 130, 172>>
      [] c = 128512 -> <<240, 159, 152, 128>>
      [] OTHER -> <<>>

\* C1: on a buffer created over a zero-length range every write, putc and
\* write_chars appends exactly the bytes it was passed, so the contents are
\* the concatenation of all the bytes written, in call order.
C1_NoByteLost ==
    [][op'.name \in WriteOps => contents' = contents \o ArgBytes(op')]_vars

\* C2: a write that makes mxbuf_require grow the buffer keeps every byte
\* written so far: the contents before it are a prefix of the contents
\* after it, also when the buffer still used the caller supplied range.
C2_GrowthKeepsWritten ==
    [][(op'.name \in WriteOps \cup {"put_utf8"} /\ calls' # <<>>)
          => IsPrefix(contents, contents')]_vars

\* C3: mxbuf_write returns src.len and mxbuf_write_chars returns n, in
\* every state: mxbuf_require always leaves room for the whole write.
C3_WriteReturnsAll ==
    /\ op.name = "write" => ret = Len(op.arg)
    /\ op.name = "write_chars" => ret = op.arg[2]

\* the addresses of the caller supplied range
InitRange ==
    IF init.ptr = NULL THEN {} ELSE init.ptr..(init.ptr + init.len)

\* C4: no operation passes the caller supplied range to free() or
\* realloc(), and trim or free on a buffer that still uses the caller
\* supplied range makes no allocator call at all.
C4_InitNeverReleased ==
    [][/\ \A i \in DOMAIN calls' :
             \/ calls'[i].ptr = NULL
             \/ /\ calls'[i].ptr # init.ptr
                /\ calls'[i].ptr \notin InitRange
        /\ ((op'.name \in {"trim", "free"} /\ buf.ptr = init.ptr)
              => calls' = <<>>)]_vars

\* a trim that left alone a caller supplied range holding data
C4_Witness ==
    /\ op.name = "trim"
    /\ init.len > 0
    /\ buf = init
    /\ contents # <<>>
    /\ calls = <<>>

\* C5: the available region is a suffix of the buffer, the written region
\* starts at buf.ptr, written length plus available length is buf.len, and
\* the assertion of mxstr_substr_offset holds.
C5_AvailableIsSuffix ==
    /\ buf.ptr <= available.ptr
    /\ available.ptr + available.len = buf.ptr + buf.len
    /\ mxbuf_str(M).ptr = buf.ptr
    /\ mxbuf_str(M).len + available.len = buf.len
    /\ mxstr_substr_offset(buf, available).ok
    /\ aborted # "substr_offset"

\* a grown, partly filled buffer
C5_Witness ==
    /\ buf.ptr \in HeapAddrs
    /\ 0 < available.len
    /\ available.len < buf.len
    /\ op.name = "write"
    /\ calls # <<>>

\* C6: mxbuf_free leaves buf and available equal to the caller supplied
\* range, as mxbuf_create did, with empty contents and no live heap block;
\* it releases only a live block, and a second mxbuf_free makes no
\* allocator call and changes nothing.
C6_FreeIdempotent ==
    [][op'.name = "free" =>
          /\ [buf |-> buf', available |-> available', init |-> init']
                = mxbuf_create(init.ptr, init.len)
          /\ contents' = <<>>
          /\ live' = {}
          /\ \A i \in DOMAIN calls' :
                calls'[i].ptr = NULL \/ calls'[i].ptr \in live
          /\ (op.name = "free" =>
                /\ calls' = <<>>
                /\ UNCHANGED <<buf, available, init, mem, live>>)]_vars

\* a free that released a heap block holding data
C6_Witness ==
    /\ op.name = "free"
    /\ Len(calls) = 1
    /\ calls[1].fn = "free"
    /\ calls[1].ptr \in HeapAddrs
    /\ buf = init
    /\ live = {}

\* C7: mxbuf_trim on a buffer that owns a heap block with written length L
\* yields buf.len = L, available.len = 0 and the same contents; on a buffer
\* that uses the caller supplied range it changes nothing.
C7_TrimExact ==
    [][op'.name = "trim" =>
          IF buf.ptr # init.ptr
          THEN /\ buf'.len = Len(contents)
               /\ available'.len = 0
               /\ contents' = contents
          ELSE UNCHANGED <<buf, available, init, mem, live>>]_vars

\* C8: mxbuf_reset empties the contents and makes the whole buffer
\* available without touching buf, init, the memory or the allocator; the
\* write that follows lands at offset 0 of the buffer.
C8_ResetKeepsStore ==
    [][/\ (op'.name = "reset" =>
             /\ available' = buf
             /\ UNCHANGED <<buf, init, mem, live>>
             /\ calls' = <<>>
             /\ contents' = <<>>)
        /\ ((op.name = "reset" /\ op'.name \in WriteOps) =>
             /\ contents' = ArgBytes(op')
             /\ Bytes(mem', mxstr(buf'.ptr, Len(ArgBytes(op'))))
                   = ArgBytes(op')
             /\ (calls' = <<>> => buf' = buf))]_vars

\* a reset of a grown buffer that held data
C8_Witness ==
    /\ op.name = "reset"
    /\ buf.ptr \in HeapAddrs
    /\ available = buf
    /\ buf.len > 1
    /\ mem[buf.ptr][1] \in SrcBytes

C10_Utf8Appended ==
    [][(op'.name = "put_utf8" /\ op'.arg[1] < 1114112) =>
          /\ ret' = TRUE
          /\ contents' = contents \o StdUtf8(op'.arg[1])]_vars

\* C11: for a codepoint of 0x110000 or more mxbuf_put_utf8 returns false and
\* leaves buf, available, the memory and the live heap blocks as they were,
\* without an allocator call.
C11_BadCodepointIgnored ==
    [][(op'.name = "put_utf8" /\ op'.arg[1] >= 1114112) =>
          /\ ret' = FALSE
          /\ UNCHANGED <<buf, available, init, mem, live, aborted>>
          /\ calls' = <<>>]_vars

\* a rejected codepoint on a full buffer that holds data
C11_Witness ==
    /\ op.name = "put_utf8"
    /\ op.arg[1] >= 1114112
    /\ ret = FALSE
    /\ available.len = 0
    /\ contents # <<>>

\* C12: mxstr_substr(str, start, end) on a string of n bytes gives the range
\* [min(start, n), min(max(start, end), n)), which lies within the string, and
\* returns true exactly when start <= end <= n, the range then being
\* [start, end).
C12_SubstrClamped ==
    op.name = "substr" =>
        LET n     == buf.len
            start == op.arg[1]
            end   == op.arg[2]
            o     == ret.substr.ptr - buf.ptr
            l     == ret.substr.len
            lo    == IF start < n THEN start ELSE n
            big   == IF start < end THEN end ELSE start
            hi    == IF big < n THEN big ELSE n
        IN  /\ 0 <= o /\ o <= o + l /\ o + l <= n
            /\ o = lo /\ o + l = hi
            /\ ret.ok <=> (start <= end /\ end <= n)
            /\ ret.ok => (o = start /\ l = end - start)
            /\ (n = 10 /\ start = 2 /\ end = 5) =>
                   (o = 2 /\ l = 3 /\ ret.ok)
            /\ (n = 10 /\ start = 5 /\ end = 3) =>
                   (o = 5 /\ l = 0 /\ ~ret.ok)
            /\ (n = 10 /\ start = 20 /\ end = 25) =>
                   (o = 10 /\ l = 0 /\ ~ret.ok)

\* the range (20, 25) of a string of 10 bytes, clamped to its end
C12_Witness ==
    /\ op.name = "substr"
    /\ buf.len = 10
    /\ op.arg = <<20, 25>>
    /\ ret = [ok |-> FALSE, substr |-> mxstr(buf.ptr + 10, 0)]

Sign(x) == IF x < 0 THEN -1 ELSE IF x > 0 THEN 1 ELSE 0

\* C13: mxstr_cmp is a lexicographic order: a string compares equal to
\* itself, exchanging the arguments negates the sign, less-than is
\* transitive, and of two strings that agree on the bytes of the shorter
\* one the shorter compares less, whatever their lengths.
C13_CmpIsOrder ==
    op.name = "cmp" =>
        LET a == op.arg[1]
            b == op.arg[2]
        IN  /\ ret.aa = 0
            /\ Sign(ret.ab) = -Sign(ret.ba)
            /\ (ret.ab < 0 /\ ret.bc < 0) => ret.ac < 0
            /\ (/\ size_lt(a.len, b.len)
                /\ \A i \in 1..max(Len(a.head), Len(b.head)) :
                      ~size_lt(a.len, size_of(i)) =>
                          ByteAt(a, i) = ByteAt(b, i))
                  => ret.ab < 0

\* C14: mxstr_consume_str returns true exactly when the string is at least
\* as long as the prefix and starts with its bytes; it then advances the
\* string by the length of the prefix, and otherwise leaves it as it was.
C14_ConsumeStr ==
    op.name = "consume_str" =>
        LET v == Bytes(mem, buf)
            p == op.arg
        IN  /\ ret <=> (Len(p) <= Len(v) /\ SubSeq(v, 1, Len(p)) = p)
            /\ ret => available = mxstr(buf.ptr + Len(p), buf.len - Len(p))
            /\ ~ret => available = buf

\* a prefix of two bytes consumed from a longer string
C14_Witness ==
    /\ op.name = "consume_str"
    /\ ret = TRUE
    /\ Len(op.arg) = 2
    /\ available = mxstr(buf.ptr + 2, buf.len - 2)
    /\ available.len > 0

\* C15: mxstr_consume_chars terminates, and then the string is what follows
\* the longest prefix made of matching characters: it starts at the first
\* character that does not match, or is empty, and ends where it ended.
C15_ConsumeChars ==
    /\ <>(op.name = "consume_chars")
    /\ [](op.name = "consume_chars" =>
            LET v == Bytes(mem, buf)
            IN  \E k \in 0..Len(v) :
                    /\ \A i \in 1..k : v[i] \in op.arg
                    /\ k < Len(v) => v[k + 1] \notin op.arg
                    /\ available = mxstr(buf.ptr + k, buf.len - k))

\* two characters consumed, the rest left
C15_Witness ==
    /\ op.name = "consume_chars"
    /\ available.ptr = buf.ptr + 2
    /\ available.len > 0
    /\ ret \notin op.arg

\* C16: on a cursor over a fixed region buf, mxstr_write and
\* mxstr_write_chars return the smaller of the space left and the length
\* asked for, mxstr_putc returns whether space was left, the cursor stays a
\* suffix of buf, the bytes outside buf and the bytes written before stay
\* as they were, and the prefix of buf before the cursor becomes what it was
\* followed by the input, cut at the length of buf.
C16_CursorWrites ==
    [][op'.name \in WriteOps =>
          LET in  == ArgBytes(op')
              all == contents \o in
          IN  /\ ret' = IF op'.name = "putc" THEN available.len > 0
                        ELSE min(available.len, Len(in))
              /\ buf' = buf
              /\ available'.ptr + available'.len = buf.ptr + buf.len
              /\ available'.len >= 0
              /\ \A a \in Blocks : \A i \in 1..Len(mem[a]) :
                     (a # InitBase \/ i > buf.len) =>
                         mem'[a][i] = mem[a][i]
              /\ contents' = SubSeq(all, 1, min(Len(all), buf.len))]_vars

\* a write cut short at the end of a region that is smaller than its memory
C16_Witness ==
    /\ op.name = "write"
    /\ 0 < ret /\ ret < Len(op.arg)
    /\ available.len = 0
    /\ Len(contents) = buf.len
    /\ buf.len < MaxCap

\* C17 as stated: for a substring [s, e) of a that mxstr_substr reports as
\* valid, mxstr_prefix(a, sub) has length s and followed by sub it is a.
C17_PrefixThenSubIsAll ==
    (op.name = "prefix" /\ ret.ok) =>
        /\ ret.prefix.len = op.arg[1]
        /\ Bytes(mem, ret.prefix) \o Bytes(mem, available) = Bytes(mem, buf)

\* C17 amended: for a substring [s, e) of a that mxstr_substr reports as
\* valid, mxstr_prefix(a, sub) has length s and followed by sub it is the
\* first e bytes of a, which is a exactly when e is the length of a.
C17_PrefixThenSubIsHead ==
    (op.name = "prefix" /\ ret.ok) =>
        LET s   == op.arg[1]
            e   == op.arg[2]
            cat == Bytes(mem, ret.prefix) \o Bytes(mem, available)
        IN  /\ ret.inside
            /\ ret.prefix.len = s
            /\ ret.prefix.ptr = buf.ptr
            /\ cat = SubSeq(Bytes(mem, buf), 1, e)
            /\ cat = Bytes(mem, buf) <=> e = buf.len

\* a substring in the middle of a string
C17_Witness ==
    /\ op.name = "prefix"
    /\ ret.ok
    /\ 0 < op.arg[1] /\ op.arg[1] < op.arg[2] /\ op.arg[2] < buf.len
    /\ Bytes(mem, available) # Bytes(mem, ret.prefix)

\* the smallest power of two that is at least x
CeilPow2(x) == CHOOSE p \in 1..(2 * x + 1) :
                   IsPow2(p) /\ p >= x /\ \A q \in 1..(p - 1) : ~(IsPow2(q) /\ q >= x)

\* C18: when a write of n bytes does not fit what is left of a Buffer of
\* capacity C that holds L bytes, the new capacity is the larger of the
\* smallest power of two that is at least C and the smallest power of two
\* that is at least L + n.
C18_GrowthPolicy ==
    [][(/\ op'.name \in WriteOps
        /\ Len(ArgBytes(op')) > available.len
        /\ aborted' = "none") =>
          buf'.len = max(CeilPow2(buf.len),
                         CeilPow2(Len(contents) + Len(ArgBytes(op'))))]_vars

\* C19: mxutil_size_p2(value) is the smallest power of two that is larger
\* than value, for every value, 0 included.
C19_SizeP2 ==
    op.name = "size_p2" =>
        /\ IsPow2(ret)
        /\ ret > op.arg[1]
        /\ \A q \in 1..(ret - 1) : ~(IsPow2(q) /\ q > op.arg[1])

\* C20: no operation of the Buffer calls mxutil_realloc with the size 0, and
\* none stops at its assertion.
C20_ReallocSizePositive ==
    /\ \A i \in DOMAIN calls : calls[i].fn = "realloc" => calls[i].size > 0
    /\ aborted # "realloc"

\* C21: while the Buffer runs, the live heap blocks are the block buf points
\* to when that is not the caller's memory, and none otherwise; after
\* mxbuf_free there is none.
C21_OwnsExactlyBuf ==
    aborted = "none" =>
        /\ live = IF buf.ptr # init.ptr THEN {buf.ptr} ELSE {}
        /\ op.name = "free" => live = {}

\* the number of bytes an operation is to write
ByteCount(o) ==
    IF o.name = "put_utf8" THEN Len(utf8_putc_args(o.arg[1]))
    ELSE Len(ArgBytes(o))

\* C22: a write, putc, write_chars or put_utf8 of no more bytes than are
\* available, and a reset, leave buf.ptr and buf.len as they are and call
\* no allocator, and the bytes that mxbuf_str referenced before are still
\* at their address with their values; a reset leaves the whole memory.
C22_FittingWriteKeepsBuf ==
    [][(\/ /\ op'.name \in WriteOps \cup {"put_utf8"}
           /\ ByteCount(op') <= available.len
        \/ op'.name = "reset") =>
          /\ buf' = buf
          /\ calls' = <<>>
          /\ live' = live
          /\ Bytes(mem', mxbuf_str(M)) = contents
          /\ op'.name = "reset" => mem' = mem]_vars

\* a write that fills what was left of a heap block that held data
C22_Witness ==
    /\ op.name \in WriteOps
    /\ calls = <<>>
    /\ buf.ptr \in HeapAddrs
    /\ available.len = 0
    /\ Len(ArgBytes(op)) > 0
    /\ Len(contents) > Len(ArgBytes(op))
====
